---- MODULE Spec2Model ----
(***************************************************************************)
(* Model of AIGenerator (backend/ai_generator.py): one activation of       *)
(* generate_response and of the tool-round loop _handle_tool_execution,    *)
(* with the Anthropic client (messages.create) and the tool manager        *)
(* (execute_tool) as the environment.                                      *)
(*                                                                         *)
(* Python values are modelled as follows.                                  *)
(*   str            a sequence of tokens; concatenation is \o, "" is <<>>  *)
(*   Optional[T]    None is <<>>, a present value x is <<x>>               *)
(*   dict           a function with a string domain; a key is present iff  *)
(*                  it is in the DOMAIN                                    *)
(*   list           a sequence                                             *)
(***************************************************************************)
EXTENDS Integers, Sequences, FiniteSets, TLC

\* ------------------------------------------------------------------------
\* Bounds of the model
\* ------------------------------------------------------------------------

\* Largest number of content blocks in one model response.
MaxBlocks == 2

\* ------------------------------------------------------------------------
\* Python helpers
\* ------------------------------------------------------------------------

None == <<>>

Some(x) == <<x>>

\* {**a, **b}: the keys of b override those of a.
Merge(a, b) == b @@ a

\* str(int) of a round number.
IntStr(n) == <<ToString(n)>>

\* Does the token sequence part occur contiguously in s ("part in s").
Contains(s, part) ==
    \E i \in 0..(Len(s) - Len(part)) :
        \A j \in 1..Len(part) : s[i + j] = part[j]

\* ------------------------------------------------------------------------
\* The generator object
\* ------------------------------------------------------------------------

SYSTEM_PROMPT == <<"SYSTEM_PROMPT">>

Model == <<"claude-model">>

\* self.base_params as built by __init__.
InitBaseParams == [model |-> Model, temperature |-> 0, max_tokens |-> 800]

\* Mutant of max_rounds: the loop is given one round too many.
max_rounds_one_more == 2 + 1

max_rounds == 2

\* ------------------------------------------------------------------------
\* Inputs of generate_response
\* ------------------------------------------------------------------------

Queries == {<<"What is machine learning?">>}

Histories == {None, Some(<<>>), Some(<<"Previous conversation context">>)}

ToolSchemas ==
    << [name |-> "search_course_content"], [name |-> "get_course_outline"] >>

ToolLists == {None, Some(<<>>), Some(ToolSchemas)}

ToolManagers == {None, Some("tool_manager")}

\* Python truthiness of an Optional[str] or Optional[list]: None, "" and []
\* are false.
Truthy(opt) == opt # None /\ Len(opt[1]) > 0

\* ------------------------------------------------------------------------
\* The environment: model responses, dispatcher outcomes, failures
\* ------------------------------------------------------------------------

\* The environment chooses the shape of every response (its stop reason and,
\* position by position, whether a block is text or a tool request) and labels
\* what it produces with where it was produced: the c-th response puts a
\* fresh text or a fresh tool_use id at position i. The code never inspects
\* these payloads, so every control path is kept and no two payloads that
\* ought to be told apart are equal.

\* Tool names alternate by position; the arguments go with the name, so the
\* same request recurs from one response to the next.
ToolNameAt(i) ==
    IF i % 2 = 1 THEN "search_course_content" ELSE "get_course_outline"

ToolInputAt(i) ==
    IF i % 2 = 1
    THEN [query |-> "machine learning"]
    ELSE [course_title |-> "ML Course"]

\* A text block has a text attribute; a tool_use block has id, name and
\* input and no text attribute, so reading its .text raises.
TextBlockAt(c, i) ==
    [type |-> "text", text |-> <<"answer", ToString(c), ToString(i)>>]

ToolUseBlockAt(c, i) ==
    [type |-> "tool_use", id |-> <<"toolu", ToString(c), ToString(i)>>,
     name |-> ToolNameAt(i), input |-> ToolInputAt(i)]

BlockTypes == {"text", "tool_use"}

\* The content list of the c-th response whose blocks have the given types.
ContentOf(c, shape) ==
    [i \in 1..Len(shape) |-> IF shape[i] = "text"
                             THEN TextBlockAt(c, i) ELSE ToolUseBlockAt(c, i)]

Shapes == UNION { [1..n -> BlockTypes] : n \in 0..MaxBlocks }

\* The content lists the c-th response can carry.
ContentsAt(c) == { ContentOf(c, shape) : shape \in Shapes }

StopReasons == {"tool_use", "end_turn", "max_tokens"}

ResponsesAt(c) == [stop_reason : StopReasons, content : ContentsAt(c)]

\* What execute_tool does for block b: it returns a text or raises.
ToolOutcomes(b) ==
    { [ok |-> TRUE, val |-> <<"Course content for">> \o b.id],
      [ok |-> FALSE, val |-> <<"Tool failed!">> \o b.id] }

ApiErrors == {<<"API Error!">>}

\* ------------------------------------------------------------------------
\* State
\* ------------------------------------------------------------------------

VARIABLES
    query, conversation_history, tools, tool_manager,  \* arguments
    base_params,        \* self.base_params
    api_params,         \* generate_response: api_params
    response,           \* generate_response: response
    messages,           \* _handle_tool_execution: messages
    current_response,   \* _handle_tool_execution: current_response
    round_number,       \* _handle_tool_execution: round_number (0: not bound yet)
    tool_results,       \* _handle_tool_execution: tool_results
    block_index,        \* position of the inner for loop over content blocks
    pc,                 \* control point
    retval,             \* the returned string once pc = "returned"
    fault,              \* the exception once pc = "raised"
    calls,              \* history: every messages.create call, in order
    dispatches,         \* history: the execute_tool calls of each round, in order
    served,             \* test app: the /api/query requests handled so far
    parked,             \* a second generate_response on the same generator
    switches            \* the thread switches so far: the number of model calls
                        \* the suspended invocation had made at each

vars == << query, conversation_history, tools, tool_manager, base_params,
           api_params, response, messages, current_response, round_number,
           tool_results, block_index, pc, retval, fault, calls,
           dispatches, served, parked, switches >>

args == << query, conversation_history, tools, tool_manager, base_params >>

\* What one generate_response on its own never touches.
others == << served, parked, switches >>

\* The local variables of one generate_response.
locals == << api_params, response, messages, current_response, round_number,
            tool_results, block_index, pc, retval, fault, calls, dispatches >>

Unset == <<>>

Init ==
    /\ query \in Queries
    /\ conversation_history \in Histories
    /\ tools \in ToolLists
    /\ tool_manager \in ToolManagers
    /\ base_params = InitBaseParams
    /\ api_params = Unset
    /\ response = Unset
    /\ messages = Unset
    /\ current_response = Unset
    /\ round_number = 0
    /\ tool_results = Unset
    /\ block_index = 0
    /\ pc = "start"
    /\ retval = Unset
    /\ fault = Unset
    /\ calls = <<>>
    /\ dispatches = [k \in 1..max_rounds |-> <<>>]
    /\ served = <<>>
    /\ parked = Unset
    /\ switches = <<>>

\* ------------------------------------------------------------------------
\* Pure parts of generate_response and _handle_tool_execution
\* ------------------------------------------------------------------------

HistoryHeading == <<"\n\nPrevious conversation:\n">>

\* system_content: the prompt, then the history under its heading when the
\* history is truthy.
SystemContent(history) ==
    IF Truthy(history)
    THEN SYSTEM_PROMPT \o HistoryHeading \o history[1]
    ELSE SYSTEM_PROMPT

ToolChoiceAuto == [type |-> "auto"]

\* Mutant of InitialParams: an empty tools list is passed on like any other.
InitialParams_ToolsNotNone(self_base, q, history, tls) ==
    LET p == Merge(self_base,
                   [messages |-> << [role |-> "user", content |-> q] >>,
                    system |-> SystemContent(history)])
    IN  IF tls # None
        THEN Merge(p, [tools |-> tls[1], tool_choice |-> ToolChoiceAuto])
        ELSE p

\* api_params of the first call.
InitialParams(self_base, q, history, tls) ==
    LET p == Merge(self_base,
                   [messages |-> << [role |-> "user", content |-> q] >>,
                    system |-> SystemContent(history)])
    IN  IF Truthy(tls)
        THEN Merge(p, [tools |-> tls[1], tool_choice |-> ToolChoiceAuto])
        ELSE p

\* Mutant of OffersTools: the last round's call still offers the tools.
OffersTools_LastRoundToo(rnd) == rnd <= max_rounds

\* Is the tools key added to the call of round rnd.
OffersTools(rnd) == rnd < max_rounds

\* Mutant of NextParams: the calls of the rounds are sent the bare prompt.
NextParams_PromptOnly(self_base, base, msgs, rnd) ==
    LET p == Merge(self_base, [messages |-> msgs, system |-> SYSTEM_PROMPT])
    IN  IF OffersTools(rnd)
        THEN Merge(p, [tools |-> IF "tools" \in DOMAIN base
                                 THEN base.tools ELSE <<>>,
                       tool_choice |-> ToolChoiceAuto])
        ELSE p

\* Mutant of NextParams: the parameters of the generator are left out and
\* tool_choice is always sent.
NextParams_NoBaseParams(self_base, base, msgs, rnd) ==
    LET p == [messages |-> msgs, system |-> base.system,
              tool_choice |-> ToolChoiceAuto]
    IN  IF OffersTools(rnd)
        THEN Merge(p, [tools |-> IF "tools" \in DOMAIN base
                                 THEN base.tools ELSE <<>>])
        ELSE p

\* next_params of the call of round rnd; base is the first call's api_params.
NextParams(self_base, base, msgs, rnd) ==
    LET p == Merge(self_base, [messages |-> msgs, system |-> base.system])
    IN  IF OffersTools(rnd)
        THEN Merge(p, [tools |-> IF "tools" \in DOMAIN base
                                 THEN base.tools ELSE <<>>,
                       tool_choice |-> ToolChoiceAuto])
        ELSE p

ToolErrorPrefix == <<"Error executing tool: ">>

\* The tool_result entry for block b, given the dispatcher's outcome o.
ToolResultOf(b, o) ==
    [type |-> "tool_result",
     tool_use_id |-> b.id,
     content |-> IF o.ok THEN o.val ELSE ToolErrorPrefix \o o.val]

\* Mutant of RoundErrorText: the round is counted from 0.
RoundErrorText_ZeroBased(rnd, e) ==
    <<"Error during tool execution round ">> \o IntStr(rnd - 1) \o <<": ">> \o e

\* The string returned when the model call of round rnd raises e.
RoundErrorText(rnd, e) ==
    <<"Error during tool execution round ">> \o IntStr(rnd) \o <<": ">> \o e

\* response.content[0].text: the text of the first block, or the exception
\* Python raises when there is no first block or it has no text attribute.
FirstText(resp) ==
    IF Len(resp.content) = 0
    THEN [ok |-> FALSE, val |-> <<"IndexError">>]
    ELSE IF "text" \in DOMAIN resp.content[1]
         THEN [ok |-> TRUE, val |-> resp.content[1].text]
         ELSE [ok |-> FALSE, val |-> <<"AttributeError">>]

\* Mutant of WantsTools: the tool manager is not looked at.
WantsTools_IgnoresManager(resp, manager) == resp.stop_reason = "tool_use"

\* Does generate_response hand the response to _handle_tool_execution.
WantsTools(resp, manager) ==
    resp.stop_reason = "tool_use" /\ manager # None

\* Mutant of AddResult: the entry is put in front.
AddResult_InFront(results, entry) == <<entry>> \o results

\* tool_results.append(entry)
AddResult(results, entry) == Append(results, entry)

\* The messages the round's call is sent: the bundled results are appended
\* as one user message when there are any.
WithToolResults(msgs, results) ==
    IF Len(results) > 0
    THEN Append(msgs, [role |-> "user", content |-> results])
    ELSE msgs

\* ------------------------------------------------------------------------
\* History records
\* ------------------------------------------------------------------------

\* The number of calls on the collaborators made so far.
RECURSIVE TotalLen(_, _)
TotalLen(f, n) == IF n = 0 THEN 0 ELSE Len(f[n]) + TotalLen(f, n - 1)

EventCount == Len(calls) + TotalLen(dispatches, max_rounds)

\* The list object a call is handed as its messages parameter: the first
\* call gets the list built for api_params, the call of a round gets
\* messages.copy(), a list nothing else refers to.
ListPassed(rnd) == IF rnd = 0 THEN "api_params" ELSE "copy"

\* Is the list _handle_tool_execution appends to a copy of the list of
\* api_params, rather than that list itself.
WorksOnCopy == TRUE

\* The record of a messages.create call; at is its position among all the
\* calls on the collaborators, list is the list object it was handed.
ModelCall(rnd, params, ok, result) ==
    [at |-> EventCount + 1, round |-> rnd, params |-> params,
     list |-> ListPassed(rnd), ok |-> ok, result |-> result]

\* The record of an execute_tool call for block b with outcome o.
ToolCall(rnd, b, o) ==
    [at |-> EventCount + 1, round |-> rnd, id |-> b.id, name |-> b.name,
     input |-> b.input, ok |-> o.ok, result |-> o.val]

\* ------------------------------------------------------------------------
\* Actions
\* ------------------------------------------------------------------------

\* return resp.content[0].text
ReturnText(resp) ==
    LET t == FirstText(resp)
    IN  IF t.ok
        THEN pc' = "returned" /\ retval' = t.val /\ fault' = fault
        ELSE pc' = "raised" /\ fault' = t.val /\ retval' = retval

\* Mutant of InitialCall: api_params is self.base_params itself, updated in
\* place, instead of a new dict.
InitialCall_UpdatesBaseParams ==
    /\ pc = "start"
    /\ api_params' = InitialParams(base_params, query, conversation_history, tools)
    /\ base_params' = api_params'
    /\ \E r \in ResponsesAt(Len(calls) + 1) :
        /\ response' = r
        /\ calls' = Append(calls,
              ModelCall(0, api_params', TRUE, r))
    /\ pc' = "decide"
    /\ UNCHANGED << query, conversation_history, tools, tool_manager, others,
                    messages, current_response, round_number,
                    tool_results, block_index, retval, fault, dispatches >>

\* generate_response up to the first messages.create, which answers.
InitialCall ==
    /\ pc = "start"
    /\ api_params' = InitialParams(base_params, query, conversation_history, tools)
    /\ \E r \in ResponsesAt(Len(calls) + 1) :
        /\ response' = r
        /\ calls' = Append(calls,
              ModelCall(0, api_params', TRUE, r))
    /\ pc' = "decide"
    /\ UNCHANGED << args, others, messages, current_response, round_number,
                    tool_results, block_index, retval, fault, dispatches >>

\* Mutant of InitialCallFails: the exception is caught and reported as a
\* string, as in the rounds.
InitialCallFails_ReturnsString ==
    /\ pc = "start"
    /\ api_params' = InitialParams(base_params, query, conversation_history, tools)
    /\ \E e \in ApiErrors :
        /\ retval' = RoundErrorText(0, e)
        /\ calls' = Append(calls,
              ModelCall(0, api_params', FALSE, e))
    /\ pc' = "returned"
    /\ UNCHANGED << args, others, response, messages, current_response, round_number,
                    tool_results, block_index, fault, dispatches >>

\* The first messages.create raises: the exception leaves generate_response.
InitialCallFails ==
    /\ pc = "start"
    /\ api_params' = InitialParams(base_params, query, conversation_history, tools)
    /\ \E e \in ApiErrors :
        /\ fault' = e
        /\ calls' = Append(calls,
              ModelCall(0, api_params', FALSE, e))
    /\ pc' = "raised"
    /\ UNCHANGED << args, others, response, messages, current_response, round_number,
                    tool_results, block_index, retval, dispatches >>

\* The direct return of generate_response.
ReturnDirect ==
    /\ pc = "decide"
    /\ ~WantsTools(response, tool_manager)
    /\ ReturnText(response)
    /\ UNCHANGED << args, others, api_params, response, messages, current_response,
                    round_number, tool_results, block_index, calls,
                    dispatches >>

\* The call of _handle_tool_execution and its first three statements.
EnterToolExecution ==
    /\ pc = "decide"
    /\ WantsTools(response, tool_manager)
    /\ messages' = api_params.messages
    /\ current_response' = response
    /\ pc' = "loop"
    /\ UNCHANGED << args, others, api_params, response, round_number, tool_results,
                    block_index, retval, fault, calls, dispatches >>

\* Mutant of BeginRound: only the tool_use blocks of the response are put
\* in the assistant message.
BeginRound_OnlyToolUses ==
    /\ pc = "loop"
    /\ round_number < max_rounds
    /\ current_response.stop_reason = "tool_use"
    /\ round_number' = round_number + 1
    /\ messages' = Append(messages,
                          [role |-> "assistant",
                           content |-> SelectSeq(current_response.content,
                                                 LAMBDA b : b.type = "tool_use")])
    /\ tool_results' = <<>>
    /\ block_index' = 1
    /\ pc' = "tools"
    /\ UNCHANGED << args, others, api_params, response, current_response, retval,
                    fault, calls, dispatches >>

\* The for loop binds the next round_number and the response asks for
\* tools: the assistant message is appended and the block loop starts.
BeginRound ==
    /\ pc = "loop"
    /\ round_number < max_rounds
    /\ current_response.stop_reason = "tool_use"
    /\ round_number' = round_number + 1
    /\ messages' = Append(messages,
                          [role |-> "assistant",
                           content |-> current_response.content])
    /\ tool_results' = <<>>
    /\ block_index' = 1
    /\ pc' = "tools"
    /\ UNCHANGED << args, others, api_params, response, current_response, retval,
                    fault, calls, dispatches >>

\* Mutant of ExecuteTool: an exception of execute_tool is not caught.
ExecuteTool_Uncaught ==
    /\ pc = "tools"
    /\ block_index <= Len(current_response.content)
    /\ current_response.content[block_index].type = "tool_use"
    /\ LET b == current_response.content[block_index]
       IN  \E o \in ToolOutcomes(b) :
            /\ dispatches' = [dispatches EXCEPT ![round_number] =
                                 Append(@, ToolCall(round_number, b, o))]
            /\ IF o.ok
               THEN /\ tool_results' = AddResult(tool_results, ToolResultOf(b, o))
                    /\ block_index' = block_index + 1
                    /\ UNCHANGED << pc, fault >>
               ELSE /\ pc' = "raised"
                    /\ fault' = o.val
                    /\ UNCHANGED << tool_results, block_index >>
    /\ UNCHANGED << args, others, api_params, response, messages, current_response,
                    round_number, retval, calls >>

\* Mutant of ExecuteTool: after an exception of execute_tool the remaining
\* blocks of the response are left out.
ExecuteTool_StopsAtFailure ==
    /\ pc = "tools"
    /\ block_index <= Len(current_response.content)
    /\ current_response.content[block_index].type = "tool_use"
    /\ LET b == current_response.content[block_index]
       IN  \E o \in ToolOutcomes(b) :
            /\ tool_results' = AddResult(tool_results, ToolResultOf(b, o))
            /\ dispatches' = [dispatches EXCEPT ![round_number] =
                                 Append(@, ToolCall(round_number, b, o))]
            /\ block_index' = IF o.ok THEN block_index + 1
                              ELSE Len(current_response.content) + 1
    /\ UNCHANGED << args, others, api_params, response, messages, current_response,
                    round_number, pc, retval, fault, calls >>

\* Mutant of ExecuteTool: an exception of execute_tool is swallowed and no
\* tool_result is appended for the block.
ExecuteTool_DropsFailure ==
    /\ pc = "tools"
    /\ block_index <= Len(current_response.content)
    /\ current_response.content[block_index].type = "tool_use"
    /\ LET b == current_response.content[block_index]
       IN  \E o \in ToolOutcomes(b) :
            /\ tool_results' = IF o.ok
                               THEN AddResult(tool_results, ToolResultOf(b, o))
                               ELSE tool_results
            /\ dispatches' = [dispatches EXCEPT ![round_number] =
                                 Append(@, ToolCall(round_number, b, o))]
    /\ block_index' = block_index + 1
    /\ UNCHANGED << args, others, api_params, response, messages, current_response,
                    round_number, pc, retval, fault, calls >>

\* Mutant of ExecuteTool: a request with the name and input of a request of
\* round 1 is answered from that request's result, without execute_tool.
ExecuteTool_Cached ==
    /\ pc = "tools"
    /\ block_index <= Len(current_response.content)
    /\ current_response.content[block_index].type = "tool_use"
    /\ LET b == current_response.content[block_index]
           prev == { n \in 1..Len(dispatches[1]) :
                       /\ round_number > 1
                       /\ dispatches[1][n].name = b.name
                       /\ dispatches[1][n].input = b.input }
       IN  IF prev # {}
           THEN LET d == dispatches[1][CHOOSE n \in prev : TRUE]
                IN  /\ tool_results' = AddResult(tool_results,
                           ToolResultOf(b, [ok |-> d.ok, val |-> d.result]))
                    /\ dispatches' = dispatches
           ELSE \E o \in ToolOutcomes(b) :
                    /\ tool_results' = AddResult(tool_results, ToolResultOf(b, o))
                    /\ dispatches' = [dispatches EXCEPT ![round_number] =
                                         Append(@, ToolCall(round_number, b, o))]
    /\ block_index' = block_index + 1
    /\ UNCHANGED << args, others, api_params, response, messages, current_response,
                    round_number, pc, retval, fault, calls >>

\* Mutant of ExecuteTool: the results are collected without an order, so
\* a result ends up before or after the ones collected so far.
ExecuteTool_AnyOrder ==
    /\ pc = "tools"
    /\ block_index <= Len(current_response.content)
    /\ current_response.content[block_index].type = "tool_use"
    /\ LET b == current_response.content[block_index]
       IN  \E o \in ToolOutcomes(b) :
            /\ tool_results' \in {AddResult(tool_results, ToolResultOf(b, o)),
                                  AddResult_InFront(tool_results, ToolResultOf(b, o))}
            /\ dispatches' = [dispatches EXCEPT ![round_number] =
                                 Append(@, ToolCall(round_number, b, o))]
    /\ block_index' = block_index + 1
    /\ UNCHANGED << args, others, api_params, response, messages, current_response,
                    round_number, pc, retval, fault, calls >>

\* One tool_use block: execute_tool answers or raises, and either way one
\* tool_result is appended.
ExecuteTool ==
    /\ pc = "tools"
    /\ block_index <= Len(current_response.content)
    /\ current_response.content[block_index].type = "tool_use"
    /\ LET b == current_response.content[block_index]
       IN  \E o \in ToolOutcomes(b) :
            /\ tool_results' = AddResult(tool_results, ToolResultOf(b, o))
            /\ dispatches' = [dispatches EXCEPT ![round_number] =
                                 Append(@, ToolCall(round_number, b, o))]
    /\ block_index' = block_index + 1
    /\ UNCHANGED << args, others, api_params, response, messages, current_response,
                    round_number, pc, retval, fault, calls >>

\* One block that is not a tool_use block.
SkipBlock ==
    /\ pc = "tools"
    /\ block_index <= Len(current_response.content)
    /\ current_response.content[block_index].type # "tool_use"
    /\ block_index' = block_index + 1
    /\ UNCHANGED << args, others, api_params, response, messages, current_response,
                    round_number, tool_results, pc, retval, fault, calls, dispatches >>

\* Mutant of LoopEnds: the stop reason of the response is not looked at.
LoopEnds_IgnoresStop(rnd, r) == ~(rnd < max_rounds)

\* Mutant of LoopEnds: the loop runs for as long as the model asks for tools.
LoopEnds_IgnoresBudget(rnd, r) == ~(r.stop_reason = "tool_use")

\* Mutant of LoopEnds: only "end_turn" breaks the loop.
LoopEnds_OnlyEndTurn(rnd, r) == ~(rnd < max_rounds /\ r.stop_reason # "end_turn")

\* Mutant of LoopEnds: the loop has no exit.
LoopEnds_Never(rnd, r) == FALSE

\* Does the for loop stop on response r: range(1, max_rounds + 1) is
\* exhausted, or the next iteration breaks because r asks for no tool.
LoopEnds(rnd, r) == ~(rnd < max_rounds /\ r.stop_reason = "tool_use")

\* Mutant of RoundCall: the call is issued without waiting for the block
\* loop to be over.
RoundCall_BeforeTools ==
    /\ pc = "tools"
    /\ messages' = WithToolResults(messages, tool_results)
    /\ \E r \in ResponsesAt(Len(calls) + 1) :
        /\ ~LoopEnds(round_number, r)
        /\ current_response' = r
        /\ calls' = Append(calls,
              ModelCall(round_number,
                        NextParams(base_params, api_params, messages', round_number),
                        TRUE, r))
    /\ pc' = "loop"
    /\ UNCHANGED << args, others, api_params, response, round_number, tool_results,
                    block_index, retval, fault, dispatches >>

\* After the block loop: the results message, next_params and a
\* messages.create whose response keeps the loop running.
RoundCall ==
    /\ pc = "tools"
    /\ block_index > Len(current_response.content)
    /\ messages' = WithToolResults(messages, tool_results)
    /\ \E r \in ResponsesAt(Len(calls) + 1) :
        /\ ~LoopEnds(round_number, r)
        /\ current_response' = r
        /\ calls' = Append(calls,
              ModelCall(round_number,
                        NextParams(base_params, api_params, messages', round_number),
                        TRUE, r))
    /\ pc' = "loop"
    /\ UNCHANGED << args, others, api_params, response, round_number, tool_results,
                    block_index, retval, fault, dispatches >>

\* Mutant of RoundCallLast: the text of the first response is returned.
RoundCallLast_FirstResponse ==
    /\ pc = "tools"
    /\ block_index > Len(current_response.content)
    /\ messages' = WithToolResults(messages, tool_results)
    /\ \E r \in ResponsesAt(Len(calls) + 1) :
        /\ LoopEnds(round_number, r)
        /\ current_response' = r
        /\ calls' = Append(calls,
              ModelCall(round_number,
                        NextParams(base_params, api_params, messages', round_number),
                        TRUE, r))
        /\ ReturnText(response)
    /\ round_number' = IF round_number < max_rounds
                       THEN round_number + 1 ELSE round_number
    /\ UNCHANGED << args, others, api_params, response, tool_results, block_index,
                    dispatches >>

\* The same, with a response on which the loop stops (the range is
\* exhausted, or the next iteration binds round_number and breaks): the
\* return statement after the loop.
RoundCallLast ==
    /\ pc = "tools"
    /\ block_index > Len(current_response.content)
    /\ messages' = WithToolResults(messages, tool_results)
    /\ \E r \in ResponsesAt(Len(calls) + 1) :
        /\ LoopEnds(round_number, r)
        /\ current_response' = r
        /\ calls' = Append(calls,
              ModelCall(round_number,
                        NextParams(base_params, api_params, messages', round_number),
                        TRUE, r))
        /\ ReturnText(r)
    /\ round_number' = IF round_number < max_rounds
                       THEN round_number + 1 ELSE round_number
    /\ UNCHANGED << args, others, api_params, response, tool_results, block_index,
                    dispatches >>

\* Mutant of RoundCallFails: the call is attempted without waiting for the
\* block loop to be over.
RoundCallFails_BeforeTools ==
    /\ pc = "tools"
    /\ messages' = WithToolResults(messages, tool_results)
    /\ \E e \in ApiErrors :
        /\ retval' = RoundErrorText(round_number, e)
        /\ calls' = Append(calls,
              ModelCall(round_number,
                        NextParams(base_params, api_params, messages', round_number),
                        FALSE, e))
    /\ pc' = "returned"
    /\ UNCHANGED << args, others, api_params, response, current_response, round_number,
                    tool_results, block_index, fault, dispatches >>

\* The same, with a messages.create that raises: the error string is
\* returned.
RoundCallFails ==
    /\ pc = "tools"
    /\ block_index > Len(current_response.content)
    /\ messages' = WithToolResults(messages, tool_results)
    /\ \E e \in ApiErrors :
        /\ retval' = RoundErrorText(round_number, e)
        /\ calls' = Append(calls,
              ModelCall(round_number,
                        NextParams(base_params, api_params, messages', round_number),
                        FALSE, e))
    /\ pc' = "returned"
    /\ UNCHANGED << args, others, api_params, response, current_response, round_number,
                    tool_results, block_index, fault, dispatches >>

Next ==
    \/ InitialCall
    \/ InitialCallFails
    \/ ReturnDirect
    \/ EnterToolExecution
    \/ BeginRound
    \/ ExecuteTool
    \/ SkipBlock
    \/ RoundCall
    \/ RoundCallLast
    \/ RoundCallFails

Spec == Init /\ [][Next]_vars

\* The invocations that were passed a tool manager: the only ones that can
\* enter _handle_tool_execution and run its rounds.
InitRounds == Init /\ tool_manager # None

SpecRounds == InitRounds /\ [][Next]_vars

\* generate_response runs on: a statement that can be executed is executed,
\* and a call on the client or on the tool manager answers or raises.
Fairness == WF_vars(Next)

\* The invocations without a conversation history; the history is read
\* once, to build the system parameter of the calls.
InitLive == Init /\ conversation_history = None

SpecLive == InitLive /\ [][Next]_vars /\ Fairness

\* ------------------------------------------------------------------------
\* Two generate_response invocations on one generator
\* ------------------------------------------------------------------------

\* The thread switches in one run.
MaxSwitches == 2

\* The arguments and local variables of the invocation that is running.
Running ==
    [query |-> query, conversation_history |-> conversation_history,
     tools |-> tools, tool_manager |-> tool_manager,
     api_params |-> api_params, response |-> response,
     messages |-> messages, current_response |-> current_response,
     round_number |-> round_number, tool_results |-> tool_results,
     block_index |-> block_index, pc |-> pc, retval |-> retval,
     fault |-> fault, calls |-> calls, dispatches |-> dispatches]

\* An invocation that has not run yet.
NewInvocation(q, history, tls, manager) ==
    [query |-> q, conversation_history |-> history,
     tools |-> tls, tool_manager |-> manager,
     api_params |-> Unset, response |-> Unset,
     messages |-> Unset, current_response |-> Unset,
     round_number |-> 0, tool_results |-> Unset,
     block_index |-> 0, pc |-> "start", retval |-> Unset,
     fault |-> Unset, calls |-> <<>>,
     dispatches |-> [k \in 1..max_rounds |-> <<>>]]

\* The query of the second invocation.
OtherQueries == {<<"What is Python programming?">>}

\* One invocation with a history, tools and a tool manager is about to run
\* and a second one, without history and tools, waits on the same
\* generator.
InitConcurrent ==
    /\ query \in Queries
    /\ conversation_history = Some(<<"Previous conversation context">>)
    /\ tools = Some(ToolSchemas)
    /\ tool_manager = Some("tool_manager")
    /\ base_params = InitBaseParams
    /\ api_params = Unset
    /\ response = Unset
    /\ messages = Unset
    /\ current_response = Unset
    /\ round_number = 0
    /\ tool_results = Unset
    /\ block_index = 0
    /\ pc = "start"
    /\ retval = Unset
    /\ fault = Unset
    /\ calls = <<>>
    /\ dispatches = [k \in 1..max_rounds |-> <<>>]
    /\ served = <<>>
    /\ \E q \in OtherQueries, manager \in ToolManagers :
          parked = Some(NewInvocation(q, None, None, manager))
    /\ switches = <<>>

\* Mutant of Switch: messages is kept on the generator, so the invocation
\* that goes on finds the list the other one left.
Switch_SharedMessages ==
    /\ parked # None
    /\ Len(switches) < MaxSwitches
    /\ parked[1].pc \notin {"returned", "raised"}
    /\ parked' = Some(Running)
    /\ switches' = Append(switches, Len(calls))
    /\ query' = parked[1].query
    /\ conversation_history' = parked[1].conversation_history
    /\ tools' = parked[1].tools
    /\ tool_manager' = parked[1].tool_manager
    /\ api_params' = parked[1].api_params
    /\ response' = parked[1].response
    /\ messages' = messages
    /\ current_response' = parked[1].current_response
    /\ round_number' = parked[1].round_number
    /\ tool_results' = parked[1].tool_results
    /\ block_index' = parked[1].block_index
    /\ pc' = parked[1].pc
    /\ retval' = parked[1].retval
    /\ fault' = parked[1].fault
    /\ calls' = parked[1].calls
    /\ dispatches' = parked[1].dispatches
    /\ UNCHANGED << base_params, served >>

\* Mutant of Switch: round_number is kept on the generator, so an
\* invocation goes on counting where the other one was.
Switch_SharedRoundNumber ==
    /\ parked # None
    /\ Len(switches) < MaxSwitches
    /\ parked[1].pc \notin {"returned", "raised"}
    /\ parked' = Some(Running)
    /\ switches' = Append(switches, Len(calls))
    /\ query' = parked[1].query
    /\ conversation_history' = parked[1].conversation_history
    /\ tools' = parked[1].tools
    /\ tool_manager' = parked[1].tool_manager
    /\ api_params' = parked[1].api_params
    /\ response' = parked[1].response
    /\ messages' = parked[1].messages
    /\ current_response' = parked[1].current_response
    /\ round_number' = round_number
    /\ tool_results' = parked[1].tool_results
    /\ block_index' = parked[1].block_index
    /\ pc' = parked[1].pc
    /\ retval' = parked[1].retval
    /\ fault' = parked[1].fault
    /\ calls' = parked[1].calls
    /\ dispatches' = parked[1].dispatches
    /\ UNCHANGED << base_params, served >>

\* The running thread is suspended and the waiting one goes on where it
\* was; self.base_params is the one object both see.
Switch ==
    /\ parked # None
    /\ Len(switches) < MaxSwitches
    /\ parked[1].pc \notin {"returned", "raised"}
    /\ parked' = Some(Running)
    /\ switches' = Append(switches, Len(calls))
    /\ query' = parked[1].query
    /\ conversation_history' = parked[1].conversation_history
    /\ tools' = parked[1].tools
    /\ tool_manager' = parked[1].tool_manager
    /\ api_params' = parked[1].api_params
    /\ response' = parked[1].response
    /\ messages' = parked[1].messages
    /\ current_response' = parked[1].current_response
    /\ round_number' = parked[1].round_number
    /\ tool_results' = parked[1].tool_results
    /\ block_index' = parked[1].block_index
    /\ pc' = parked[1].pc
    /\ retval' = parked[1].retval
    /\ fault' = parked[1].fault
    /\ calls' = parked[1].calls
    /\ dispatches' = parked[1].dispatches
    /\ UNCHANGED << base_params, served >>

\* The responses of the model in the runs of two invocations: a final
\* answer of one text block, or a tool request with or without a text
\* block in front of it.
IsUsualResponse(r) ==
    \/ /\ r.stop_reason = "end_turn"
       /\ Len(r.content) = 1
       /\ r.content[1].type = "text"
    \/ /\ r.stop_reason = "tool_use"
       /\ Len(r.content) \in {1, 2}
       /\ r.content[Len(r.content)].type = "tool_use"
       /\ Len(r.content) = 2 => r.content[1].type = "text"

UsualResponses ==
    \A i \in 1..Len(calls) : calls[i].ok => IsUsualResponse(calls[i].result)

\* A step of the running invocation, or a thread switch.
NextConcurrent ==
    \/ Next /\ UsualResponses'
    \/ Switch

SpecConcurrent == InitConcurrent /\ [][NextConcurrent]_vars

\* ------------------------------------------------------------------------
\* Two runs of generate_response with the same arguments
\* ------------------------------------------------------------------------

\* The calls invocation t has made on its collaborators.
EventCountOf(t) == Len(t.calls) + TotalLen(t.dispatches, max_rounds)

\* The e-th call invocation t made on a collaborator: which operation, what
\* it was passed, and what came back.
EventOf(t, e) ==
    LET cs == { i \in 1..Len(t.calls) : t.calls[i].at = e }
        ds == UNION { { <<k, n>> : n \in { m \in 1..Len(t.dispatches[k]) :
                                             t.dispatches[k][m].at = e } } :
                      k \in 1..max_rounds }
    IN  IF cs # {}
        THEN LET c == t.calls[CHOOSE i \in cs : TRUE]
             IN  [kind |-> "messages.create", request |-> c.params,
                  ok |-> c.ok, answer |-> c.result]
        ELSE LET kn == CHOOSE kn \in ds : TRUE
                 d == t.dispatches[kn[1]][kn[2]]
             IN  [kind |-> "execute_tool",
                  request |-> [name |-> d.name, input |-> d.input],
                  ok |-> d.ok, answer |-> d.result]

\* The calls invocation t made on its collaborators, in the order it made
\* them.
Events(t) == [e \in 1..EventCountOf(t) |-> EventOf(t, e)]

\* Did a collaborator answer call x of one run and call y of the other
\* alike.
SameAnswer(x, y) ==
    x.kind = y.kind => (x.ok = y.ok /\ x.answer = y.answer)

\* The latest call of the running run was answered as the same call of the
\* other run was, when that one got as far.
AnsweredAsBefore ==
    (EventCount >= 1 /\ EventCount <= EventCountOf(parked[1])) =>
        SameAnswer(EventOf(Running, EventCount), EventOf(parked[1], EventCount))

\* The responses of the model in the two runs: a final answer of one text
\* block or of no block at all, or a tool request, alone, behind a text
\* block or behind another tool request.
IsReplayedResponse(r) ==
    \/ IsUsualResponse(r)
    \/ /\ r.stop_reason = "end_turn"
       /\ Len(r.content) = 0
    \/ /\ r.stop_reason = "tool_use"
       /\ Len(r.content) = 2
       /\ r.content[1].type = "tool_use"
       /\ r.content[2].type = "tool_use"

ReplayedResponses ==
    \A i \in 1..Len(calls) : calls[i].ok => IsReplayedResponse(calls[i].result)

\* One run is about to start and a second one with the same query, history,
\* tools and tool manager waits on the same generator.
InitTwice ==
    /\ query \in Queries
    /\ conversation_history \in Histories
    /\ tools \in ToolLists
    /\ tool_manager \in ToolManagers
    /\ base_params = InitBaseParams
    /\ api_params = Unset
    /\ response = Unset
    /\ messages = Unset
    /\ current_response = Unset
    /\ round_number = 0
    /\ tool_results = Unset
    /\ block_index = 0
    /\ pc = "start"
    /\ retval = Unset
    /\ fault = Unset
    /\ calls = <<>>
    /\ dispatches = [k \in 1..max_rounds |-> <<>>]
    /\ served = <<>>
    /\ parked = Some(NewInvocation(query, conversation_history, tools,
                                   tool_manager))
    /\ switches = <<>>

\* A step of the run that is running, answered as the other run was, or,
\* once the first run is over, the start of the second.
NextTwice ==
    \/ Next /\ ReplayedResponses' /\ AnsweredAsBefore'
    \/ Switch /\ pc \in {"returned", "raised"}

SpecTwice == InitTwice /\ [][NextTwice]_vars

\* ------------------------------------------------------------------------
\* The test application: POST /api/query with the mocked RAG system
\* ------------------------------------------------------------------------

\* The requests posted to one test application.
MaxRequests == 2

\* session_id of a QueryRequest: left out, the empty string, or an id.
SessionIdsSent == {None, Some(<<>>), Some(<<"test-session-456">>)}

QueryRequests == [query : Queries, session_id : SessionIdsSent]

\* What session_manager.create_session() returns.
NewSessionIds == {<<"test-session-123">>, <<"session_2">>}

MockAnswer == <<"This is a test answer from the mocked RAG system.">>

QueryErrors == {<<"RAG system error">>}

\* Mutant of ResolveSession: a session is created only when the request
\* has no session_id field at all.
ResolveSession_WhenNone(request, fresh) ==
    IF request.session_id # None
    THEN [session_id |-> request.session_id[1], created |-> <<>>]
    ELSE [session_id |-> fresh, created |-> <<fresh>>]

\* request.session_id or create_session(): the session id the handler goes
\* on with and the create_session calls it made; fresh is what
\* create_session returns when called.
ResolveSession(request, fresh) ==
    IF Truthy(request.session_id)
    THEN [session_id |-> request.session_id[1], created |-> <<>>]
    ELSE [session_id |-> fresh, created |-> <<fresh>>]

\* The record of one handled request: the create_session calls, the
\* arguments of mock_rag_system.query and the HTTP response.
Served(request, resolved, status, body) ==
    [request |-> request,
     created |-> resolved.created,
     queried |-> << << request.query, resolved.session_id >> >>,
     status |-> status,
     body |-> body]

\* query_documents, with a mock_rag_system.query that returns.
QueryDocuments ==
    /\ Len(served) < MaxRequests
    /\ \E request \in QueryRequests, fresh \in NewSessionIds :
        LET resolved == ResolveSession(request, fresh)
        IN  served' = Append(served,
                Served(request, resolved, 200,
                       [answer |-> MockAnswer,
                        session_id |-> resolved.session_id]))
    /\ UNCHANGED << args, locals, parked, switches >>

\* query_documents, with a mock_rag_system.query that raises: the exception
\* leaves the handler and the server answers 500.
QueryDocumentsFails ==
    /\ Len(served) < MaxRequests
    /\ \E request \in QueryRequests, fresh \in NewSessionIds, e \in QueryErrors :
        LET resolved == ResolveSession(request, fresh)
        IN  served' = Append(served,
                Served(request, resolved, 500, [detail |-> e]))
    /\ UNCHANGED << args, locals, parked, switches >>

\* The test application is created with its mocks; no generator is involved.
InitApp ==
    /\ Init
    /\ conversation_history = None
    /\ tools = None
    /\ tool_manager = None

NextApp ==
    \/ QueryDocuments
    \/ QueryDocumentsFails

SpecApp == InitApp /\ [][NextApp]_vars

\* ------------------------------------------------------------------------
\* Views of the history
\* ------------------------------------------------------------------------

\* The calls made inside the round loop.
RoundCalls == { i \in 1..Len(calls) : calls[i].round >= 1 }

Terminated == pc \in {"returned", "raised"}

\* f applied to every element of the sequence s.
MapSeq(f(_), s) == [i \in 1..Len(s) |-> f(s[i])]

\* The tool_use blocks of a content list, in order.
ToolUsesIn(content) == SelectSeq(content, LAMBDA b : b.type = "tool_use")

IsPrefix(s, t) ==
    /\ Len(s) <= Len(t)
    /\ \A i \in 1..Len(s) : s[i] = t[i]

\* ------------------------------------------------------------------------
\* C1
\* ------------------------------------------------------------------------

\* C1: whatever the arguments, the model and the dispatcher do, one
\* invocation of generate_response makes at most 1 + 2 = 3 model calls.
C1_AtMostThreeModelCalls == Len(calls) <= 3

\* The model asked for tools on all three calls and the invocation is over.
C1_Witness ==
    /\ Terminated
    /\ Len(calls) = 3
    /\ \A i \in 1..3 : calls[i].ok /\ calls[i].result.stop_reason = "tool_use"

\* ------------------------------------------------------------------------
\* C2
\* ------------------------------------------------------------------------

\* C2: when a non-empty tool schema list was supplied, the call of round r
\* carries that list and tool_choice auto if r < 2, and carries neither key
\* if r = 2.
C2_ToolsOfferedIffBelowMaxRounds ==
    Truthy(tools) =>
        \A i \in RoundCalls :
            LET p == calls[i].params
            IN  IF calls[i].round < 2
                THEN /\ "tools" \in DOMAIN p
                     /\ p.tools = tools[1]
                     /\ "tool_choice" \in DOMAIN p
                     /\ p.tool_choice = [type |-> "auto"]
                ELSE /\ "tools" \notin DOMAIN p
                     /\ "tool_choice" \notin DOMAIN p

\* Tools were supplied and both the round-1 and the round-2 call were made.
C2_Witness ==
    /\ Truthy(tools)
    /\ \E i, j \in RoundCalls : calls[i].round = 1 /\ calls[j].round = 2

\* ------------------------------------------------------------------------
\* C3
\* ------------------------------------------------------------------------

\* C3: with the tool schemas absent or empty, whatever the dispatcher and the
\* stop reason, exactly one model call is made and the returned string is
\* the text of its response.
C3_NoToolsOneCall ==
    ~Truthy(tools) =>
        /\ Len(calls) <= 1
        /\ pc = "returned" =>
              /\ Len(calls) = 1
              /\ retval = calls[1].result.content[1].text

\* ------------------------------------------------------------------------
\* C4
\* ------------------------------------------------------------------------

\* C4: with the tool schemas absent or empty, no model call of the query
\* carries a tools key or a tool_choice key.
C4_NoToolsNeverOffered ==
    ~Truthy(tools) =>
        \A i \in 1..Len(calls) :
            /\ "tools" \notin DOMAIN calls[i].params
            /\ "tool_choice" \notin DOMAIN calls[i].params

\* ------------------------------------------------------------------------
\* C5
\* ------------------------------------------------------------------------

\* Has the model call of round k been made. The calls are the first call
\* and then one per round, so the call of round k is calls[k + 1].
RoundCallMade(k) == Len(calls) > k

\* The last message sent in the call of round k.
SentResults(k) ==
    LET m == calls[k + 1].params.messages IN m[Len(m)]

\* C5: an exception raised by execute_tool never leaves generate_response;
\* the conversation sent in that round's model call carries, under the
\* request's id, the text "Error executing tool: " followed by the message;
\* and that round's model call is made.
C5_ToolFailureIsolated ==
    \A k \in DOMAIN dispatches :
        \A n \in 1..Len(dispatches[k]) :
            LET d == dispatches[k][n]
            IN  ~d.ok =>
                  /\ pc = "raised" => fault # d.result
                  /\ Terminated => RoundCallMade(k)
                  /\ RoundCallMade(k) =>
                        /\ calls[k + 1].round = k
                        /\ SentResults(k).role = "user"
                        /\ \E j \in 1..Len(SentResults(k).content) :
                              SentResults(k).content[j] =
                                  [type |-> "tool_result",
                                   tool_use_id |-> d.id,
                                   content |-> <<"Error executing tool: ">> \o d.result]

\* A tool failed in round 1, the round's call was made and answered, and
\* generate_response returned.
C5_Witness ==
    /\ pc = "returned"
    /\ \E n \in 1..Len(dispatches[1]) : ~dispatches[1][n].ok
    /\ RoundCallMade(1)
    /\ calls[2].ok

\* ------------------------------------------------------------------------
\* C6
\* ------------------------------------------------------------------------

\* C6: when the model call of round k raises, nothing is called afterwards
\* (no retry, no other model call, no execute_tool) and generate_response
\* returns a string that contains the round number k and the message.
C6_RoundCallFailureStops ==
    \A i \in RoundCalls :
        ~calls[i].ok =>
           /\ calls[i].at = EventCount
           /\ pc = "returned"
           /\ Contains(retval, <<ToString(calls[i].round)>>)
           /\ Contains(retval, calls[i].result)
           /\ retval = <<"Error during tool execution round ",
                         ToString(calls[i].round), ": ">> \o calls[i].result

\* The model call of round 2 raised.
C6_Witness ==
    /\ Len(calls) = 3
    /\ ~calls[3].ok
    /\ calls[3].round = 2

\* ------------------------------------------------------------------------
\* C7
\* ------------------------------------------------------------------------

\* The last model response produced. A call that raises is the last call
\* of the query, so it is the result of the last call or of the one before.
LastResponse ==
    IF calls[Len(calls)].ok
    THEN calls[Len(calls)].result
    ELSE calls[Len(calls) - 1].result

\* Did the last model call fail inside a round.
RoundCallFailed ==
    Len(calls) > 0 /\ ~calls[Len(calls)].ok /\ calls[Len(calls)].round >= 1

\* C7 as stated: on every path that returns, failure of a model call inside
\* a round included, the returned string is the text of the last model
\* response produced.
C7_ReturnsLastResponseText ==
    pc = "returned" =>
        /\ Len(LastResponse.content) > 0
        /\ "text" \in DOMAIN LastResponse.content[1]
        /\ retval = LastResponse.content[1].text

\* C7 amended: on every path that returns without a model call having failed
\* inside a round, the returned string is the text of the first content
\* block of the last model response produced; when the model call of round
\* k failed, it is the error string for round k instead.
C7_ReturnsLastTextOrRoundError ==
    pc = "returned" =>
        IF RoundCallFailed
        THEN retval = <<"Error during tool execution round ",
                        ToString(calls[Len(calls)].round), ": ">>
                      \o calls[Len(calls)].result
        ELSE /\ Len(LastResponse.content) > 0
             /\ "text" \in DOMAIN LastResponse.content[1]
             /\ retval = LastResponse.content[1].text

\* A return after the round budget was used up, with the text of the third
\* response.
C7_Witness ==
    /\ pc = "returned"
    /\ ~RoundCallFailed
    /\ Len(calls) = 3
    /\ LastResponse.stop_reason = "tool_use"
    /\ retval = LastResponse.content[1].text

\* ------------------------------------------------------------------------
\* C8
\* ------------------------------------------------------------------------

\* C8: the conversation sent in the call of round k is the conversation of
\* the previous call, unchanged, then one assistant turn holding the
\* response's content, then one user turn; for every response, one that
\* reports tool_use without any tool_use block included.
C8_RoundAddsAssistantThenUser ==
    \A i \in RoundCalls :
        LET prev == calls[i - 1].params.messages
            sent == calls[i].params.messages
        IN  /\ Len(sent) = Len(prev) + 2
            /\ IsPrefix(prev, sent)
            /\ sent[Len(prev) + 1] =
                  [role |-> "assistant", content |-> calls[i - 1].result.content]
            /\ sent[Len(prev) + 2].role = "user"

\* ------------------------------------------------------------------------
\* C9
\* ------------------------------------------------------------------------

\* C9: the first call is sent 1 turn, the call of round 1 is sent 3 turns
\* and the call of round 2 is sent 5 turns, whatever the responses were.
C9_ConversationLength ==
    \A i \in 1..Len(calls) :
        Len(calls[i].params.messages) = 1 + 2 * calls[i].round

\* ------------------------------------------------------------------------
\* C10
\* ------------------------------------------------------------------------

\* What execute_tool is asked for a tool_use block, with the block's id.
RequestOf(b) == << b.id, b.name, b.input >>

\* What execute_tool was asked in a recorded call, with the block's id.
Dispatched(d) == << d.id, d.name, d.input >>

\* The tool_result that answers a recorded call.
ResultOfDispatch(d) ==
    << d.id, IF d.ok THEN d.result ELSE <<"Error executing tool: ">> \o d.result >>

\* The requests of the response that round k processes, in listed order.
RequestsOfRound(k) == MapSeq(RequestOf, ToolUsesIn(calls[k].result.content))

\* C10: in every round the dispatcher is invoked for the tool requests of
\* the response in the order they are listed, and the tool results of the
\* round's user turn are in that same order, whether an invocation
\* succeeded or failed.
C10_DispatchAndResultsInListedOrder ==
    \A k \in 1..round_number :
        LET done == MapSeq(Dispatched, dispatches[k])
            asked == RequestsOfRound(k)
        IN  /\ IsPrefix(done, asked)
            /\ RoundCallMade(k) =>
                  /\ done = asked
                  /\ Len(done) > 0 =>
                        MapSeq(LAMBDA r : << r.tool_use_id, r.content >>,
                               SentResults(k).content)
                        = MapSeq(ResultOfDispatch, dispatches[k])

\* A round with two tool requests, the first of which failed and the second
\* of which succeeded, whose model call was made.
C10_Witness ==
    \E k \in 1..round_number :
        /\ RoundCallMade(k)
        /\ Len(dispatches[k]) = 2
        /\ ~dispatches[k][1].ok
        /\ dispatches[k][2].ok

\* ------------------------------------------------------------------------
\* C11
\* ------------------------------------------------------------------------

\* The number of execute_tool calls made so far.
DispatchCount == TotalLen(dispatches, max_rounds)

\* The first response asks for tools and a tool manager was passed.
FirstAsksWithManager ==
    /\ calls[1].result.stop_reason = "tool_use"
    /\ tool_manager # None

RoundDispatchedAll(j) == MapSeq(Dispatched, dispatches[j]) = RequestsOfRound(j)

ToolsOnEveryCall ==
    /\ Len(calls) = 3
    /\ \A i \in 1..3 : calls[i].ok /\ calls[i].result.stop_reason = "tool_use"

\* The ids of the tool_use blocks of response i.
ToolUseIdsOf(i) ==
    { calls[i].result.content[n].id :
        n \in { m \in 1..Len(calls[i].result.content) :
                  calls[i].result.content[m].type = "tool_use" } }

AskedInRound(k) == ToolUsesIn(calls[k].result.content)

\* C14: an exception of execute_tool on one tool request of a response
\* touches that request only: once the round's call is made, execute_tool
\* has been called for every tool request of the response, those after the
\* failed one included, and the tool_result of every request that succeeded
\* holds exactly what execute_tool returned for it.
C14_FailureConfinedToItsRequest ==
    \A k \in 1..max_rounds :
        (RoundCallMade(k) /\ \E n \in 1..Len(dispatches[k]) : ~dispatches[k][n].ok) =>
            LET asked == AskedInRound(k)
                sent == SentResults(k).content
            IN  /\ Len(dispatches[k]) = Len(asked)
                /\ Len(sent) = Len(asked)
                /\ \A n \in 1..Len(dispatches[k]) :
                      /\ dispatches[k][n].id = asked[n].id
                      /\ dispatches[k][n].ok =>
                            sent[n] = [type |-> "tool_result",
                                       tool_use_id |-> asked[n].id,
                                       content |-> dispatches[k][n].result]

\* In round 1 the first of two tool requests failed; the second was still
\* run and its result was sent with the text execute_tool returned.
C14_Witness ==
    /\ RoundCallMade(1)
    /\ Len(dispatches[1]) = 2
    /\ ~dispatches[1][1].ok
    /\ dispatches[1][2].ok
    /\ dispatches[1][2].at > dispatches[1][1].at
    /\ SentResults(1).content[2].content = dispatches[1][2].result

\* ------------------------------------------------------------------------
\* C15
\* ------------------------------------------------------------------------

\* The tool_result entries sent with the call of round k: the content of the
\* user message that closes the conversation, none when the conversation
\* closes with the assistant message.
ResultsSent(k) ==
    IF SentResults(k).role = "user" THEN SentResults(k).content ELSE <<>>

\* C15: the tool results sent with the call of a round are one per tool
\* request of the response the round processed, in number and position, and
\* each is a tool_result whose tool_use_id is the id of its request, whether
\* execute_tool returned or raised.
C15_OneResultPerRequestWithItsId ==
    \A k \in 1..max_rounds :
        RoundCallMade(k) =>
            LET asked == AskedInRound(k)
                sent == ResultsSent(k)
            IN  /\ Len(sent) = Len(asked)
                /\ \A n \in 1..Len(sent) :
                      /\ sent[n].type = "tool_result"
                      /\ sent[n].tool_use_id = asked[n].id
                      /\ sent[n].tool_use_id = dispatches[k][n].id

\* Round 2 processed two tool requests, the second of which failed, and its
\* call was sent two tool results.
C15_Witness ==
    /\ RoundCallMade(2)
    /\ Len(AskedInRound(2)) = 2
    /\ dispatches[2][1].ok
    /\ ~dispatches[2][2].ok
    /\ Len(ResultsSent(2)) = 2

\* ------------------------------------------------------------------------
\* C16
\* ------------------------------------------------------------------------

\* C16: when a response has stop_reason "tool_use" and no tool_use block,
\* the call of the round that processes it is sent a conversation that ends
\* with the assistant message followed by a user message with an empty list
\* of tool results.
C16_EmptyResultsTurnIsSent ==
    \A k \in 1..max_rounds :
        (RoundCallMade(k) /\ Len(AskedInRound(k)) = 0) =>
            LET m == calls[k + 1].params.messages
            IN  /\ Len(m) >= 3
                /\ m[Len(m)] = [role |-> "user", content |-> <<>>]
                /\ m[Len(m) - 1].role = "assistant"

\* ------------------------------------------------------------------------
\* C17
\* ------------------------------------------------------------------------

IsSuffix(s, t) ==
    /\ Len(s) <= Len(t)
    /\ \A i \in 1..Len(s) : s[i] = t[Len(t) - Len(s) + i]

\* The conversation history is no message of msgs: the first message is
\* the user's query, and every other one is a response's content under the
\* assistant role or a list of tool results that do not hold the history.
HistoryIsNoTurn(msgs) ==
    /\ msgs[1] = [role |-> "user", content |-> query]
    /\ Truthy(conversation_history) =>
          ~Contains(msgs[1].content, conversation_history[1])
    /\ \A j \in 2..Len(msgs) :
          IF msgs[j].role = "assistant"
          THEN \E c \in 1..Len(calls) :
                  calls[c].ok /\ msgs[j].content = calls[c].result.content
          ELSE /\ msgs[j].role = "user"
               /\ \A n \in 1..Len(msgs[j].content) :
                     /\ msgs[j].content[n].type = "tool_result"
                     /\ Truthy(conversation_history) =>
                           ~Contains(msgs[j].content[n].content,
                                     conversation_history[1])

\* C17: every model call of one generate_response has the same system
\* parameter: it starts with SYSTEM_PROMPT, it ends with the conversation
\* history when one was passed, it is the bare SYSTEM_PROMPT when none was,
\* and the calls of the rounds have the value the first call had; the
\* history is never one of the messages.
C17_SameSystemOnEveryCall ==
    \A i \in 1..Len(calls) :
        LET sys == calls[i].params.system
        IN  /\ sys = calls[1].params.system
            /\ IsPrefix(SYSTEM_PROMPT, sys)
            /\ IF conversation_history = None
               THEN sys = SYSTEM_PROMPT
               ELSE IsSuffix(conversation_history[1], sys)
            /\ Truthy(conversation_history) =>
                  Len(sys) > Len(SYSTEM_PROMPT) + Len(conversation_history[1])
            /\ HistoryIsNoTurn(calls[i].params.messages)

\* A conversation history was passed and both rounds made their call.
C17_Witness ==
    /\ Truthy(conversation_history)
    /\ Len(calls) = 3
    /\ calls[3].ok
    /\ calls[3].params.system # SYSTEM_PROMPT
    /\ Len(calls[3].params.messages) = 5

\* ------------------------------------------------------------------------
\* C18
\* ------------------------------------------------------------------------

C19_FirstCallIsQueryOnly ==
    pc # "start" =>
        /\ Len(calls) >= 1
        /\ calls[1].at = 1
        /\ calls[1].round = 0
        /\ calls[1].params.messages = << [role |-> "user", content |-> query] >>
        /\ "tools" \in DOMAIN calls[1].params
              <=> (tools # None /\ Len(tools[1]) > 0)
        /\ "tools" \in DOMAIN calls[1].params => calls[1].params.tools = tools[1]

\* An empty tools list and no tool manager were passed, and the one call
\* was made without a tools parameter.
C19_Witness ==
    /\ pc = "returned"
    /\ tools = Some(<<>>)
    /\ tool_manager = None
    /\ Len(calls) = 1
    /\ "tools" \notin DOMAIN calls[1].params

\* ------------------------------------------------------------------------
\* C20
\* ------------------------------------------------------------------------

\* The name and the input of a tool_use block or of a recorded call.
NameAndInput(x) == << x.name, x.input >>

C22_EventsStrictlySequential ==
    /\ \A i \in 1..Len(calls) :
          /\ calls[i].round = i - 1
          /\ i > 1 => calls[i - 1].ok /\ calls[i].at > calls[i - 1].at
    /\ \A k \in 1..max_rounds :
          LET done == dispatches[k]
          IN  /\ Len(done) > 0 => Len(calls) >= k /\ calls[k].ok
              /\ \A n \in 1..Len(done) :
                    /\ done[n].at > calls[k].at
                    /\ n > 1 => done[n].at = done[n - 1].at + 1
              /\ RoundCallMade(k) =>
                    /\ Len(done) = Len(AskedInRound(k))
                    /\ calls[k + 1].at = calls[k].at + Len(done) + 1
                    /\ \A n \in 1..Len(done) : done[n].at < calls[k + 1].at

\* Two rounds of two tool calls each: the seven calls were made in the
\* order model, tool, tool, model, tool, tool, model.
C22_Witness ==
    /\ Len(calls) = 3
    /\ Len(dispatches[1]) = 2
    /\ Len(dispatches[2]) = 2
    /\ calls[1].at = 1
    /\ dispatches[1][1].at = 2
    /\ dispatches[1][2].at = 3
    /\ calls[2].at = 4
    /\ dispatches[2][1].at = 5
    /\ dispatches[2][2].at = 6
    /\ calls[3].at = 7

\* ------------------------------------------------------------------------
\* C24
\* ------------------------------------------------------------------------

\* C24: every model call, the first one and the one of each round, has the
\* model, temperature 0 and max_tokens 800 of the generator, and has a
\* tool_choice parameter, equal to {"type": "auto"}, exactly when it has a
\* tools parameter.
C24_SameBaseParamsAndToolChoiceWithTools ==
    \A i \in 1..Len(calls) :
        LET p == calls[i].params
        IN  /\ {"model", "temperature", "max_tokens"} \subseteq DOMAIN p
            /\ p.model = Model
            /\ p.model = calls[1].params.model
            /\ p.temperature = 0
            /\ p.max_tokens = 800
            /\ p.max_tokens = calls[1].params.max_tokens
            /\ ("tool_choice" \in DOMAIN p) <=> ("tools" \in DOMAIN p)
            /\ "tool_choice" \in DOMAIN p => p.tool_choice = [type |-> "auto"]

\* Three calls of one invocation that was passed tools: the first two have
\* tools and tool_choice, the third has neither.
C24_Witness ==
    /\ Len(calls) = 3
    /\ Truthy(tools)
    /\ "tool_choice" \in DOMAIN calls[1].params
    /\ "tool_choice" \in DOMAIN calls[2].params
    /\ "tool_choice" \notin DOMAIN calls[3].params
    /\ "tools" \notin DOMAIN calls[3].params
    /\ calls[3].params.temperature = 0

\* ------------------------------------------------------------------------
\* C26
\* ------------------------------------------------------------------------

\* C26: when the first messages.create raises, generate_response is left by
\* that exception: nothing is returned, the exception is the one the client
\* raised, execute_tool was never called and no other model call was made.
C26_FirstCallFailurePropagates ==
    (Len(calls) >= 1 /\ ~calls[1].ok) =>
        /\ pc = "raised"
        /\ fault = calls[1].result
        /\ retval = Unset
        /\ Len(calls) = 1
        /\ DispatchCount = 0
        /\ round_number = 0

\* The first call raised although tools and a tool manager were passed.
C26_Witness ==
    /\ Len(calls) = 1
    /\ ~calls[1].ok
    /\ pc = "raised"
    /\ Truthy(tools)
    /\ tool_manager # None
    /\ fault \in ApiErrors

\* ------------------------------------------------------------------------
\* C27
\* ------------------------------------------------------------------------

\* What the list object handed to call i holds now.
ListNow(i) ==
    CASE calls[i].list = "api_params" ->
            IF WorksOnCopy \/ messages = Unset
            THEN api_params.messages ELSE messages
      [] calls[i].list = "messages" -> messages
      [] OTHER -> calls[i].params.messages

\* The list handed to each call still holds what the call received.
SnapshotsKept ==
    \A i \in 1..Len(calls) : ListNow(i) = calls[i].params.messages

\* C27: the list handed to a model call is not changed by what later rounds
\* append, and once both rounds have made their call the list of the first
\* call holds 1 message and the list of the second call holds 3.
C27_SnapshotsOfOneAndThreeTurns ==
    /\ SnapshotsKept
    /\ Len(calls) = 3 =>
          /\ Len(ListNow(1)) = 1
          /\ Len(ListNow(2)) = 3

\* ------------------------------------------------------------------------
\* C28
\* ------------------------------------------------------------------------

\* No call of the last round has a tools parameter, whatever the earlier
\* calls were sent.
LastRoundCallsOmitTools ==
    \A i \in 1..Len(calls) :
        calls[i].round = max_rounds => "tools" \notin DOMAIN calls[i].params

\* C28: no step of generate_response, on any path, changes self.base_params
\* or the tools list of the caller; self.base_params holds model,
\* temperature and max_tokens and nothing else at every point, and the
\* tools sent with the earlier calls are not in the call of the last round.
C28_BaseParamsAndToolsUntouched ==
    /\ [](base_params = InitBaseParams /\ LastRoundCallsOmitTools)
    /\ [][base_params' = base_params /\ tools' = tools]_vars

\* An invocation that was passed tools is over after three calls: the first
\* two were sent the tools, the third was not, and self.base_params is as
\* __init__ left it.
C28_Witness ==
    /\ Terminated
    /\ Len(calls) = 3
    /\ Truthy(tools)
    /\ calls[1].params.tools = tools[1]
    /\ calls[2].params.tools = tools[1]
    /\ "tools" \notin DOMAIN calls[3].params
    /\ base_params = InitBaseParams
    /\ DOMAIN base_params = {"model", "temperature", "max_tokens"}

\* ------------------------------------------------------------------------
\* C29
\* ------------------------------------------------------------------------

\* C29: when the model call of round k raises, the error string is what
\* generate_response returns, and by then execute_tool has been called once
\* for each tool request of the first k responses, the one of the failing
\* round included, each before the failing call; the records of those calls
\* and the results collected in the failing round are still there.
C29_ToolsRunBeforeRoundError ==
    \A i \in RoundCalls :
        ~calls[i].ok =>
            LET k == calls[i].round
            IN  /\ i = k + 1
                /\ pc = "returned"
                /\ retval = <<"Error during tool execution round ">>
                               \o IntStr(k) \o <<": ">> \o calls[i].result
                /\ \A j \in 1..max_rounds :
                      IF j <= k
                      THEN LET done == dispatches[j]
                               asked == AskedInRound(j)
                           IN  /\ Len(done) = Len(asked)
                               /\ \A n \in 1..Len(done) :
                                     /\ done[n].id = asked[n].id
                                     /\ done[n].at < calls[i].at
                      ELSE dispatches[j] = <<>>
                /\ Len(tool_results) = Len(dispatches[k])
                /\ ResultsSent(k) = tool_results

\* The call of round 2 raised after two tool calls in round 2 and one in
\* round 1.
C29_Witness ==
    /\ Len(calls) = 3
    /\ ~calls[3].ok
    /\ pc = "returned"
    /\ Len(dispatches[1]) = 1
    /\ Len(dispatches[2]) = 2
    /\ dispatches[2][2].at < calls[3].at

\* ------------------------------------------------------------------------
\* C30
\* ------------------------------------------------------------------------

\* C30: the assistant message a round appends has the content list of the
\* response the round processes, every block in its place, text blocks
\* included; it is the message the round's call is sent last, or last
\* before the tool results. The blocks that are not tool_use blocks cause
\* no execute_tool call and no tool result: the calls and the results of
\* the round are as many as the tool_use blocks and carry their ids.
C30_AssistantTurnIsResponseContent ==
    /\ pc = "tools" =>
          messages[Len(messages)] =
              [role |-> "assistant", content |-> current_response.content]
    /\ \A k \in 1..max_rounds :
          RoundCallMade(k) =>
              LET m == calls[k + 1].params.messages
                  turn == IF m[Len(m)].role = "user" THEN Len(m) - 1 ELSE Len(m)
                  ids == ToolUseIdsOf(k)
                  sent == ResultsSent(k)
              IN  /\ turn > 1
                  /\ m[turn] = [role |-> "assistant",
                                content |-> calls[k].result.content]
                  /\ Len(dispatches[k]) = Cardinality(ids)
                  /\ Len(sent) = Cardinality(ids)
                  /\ \A n \in 1..Len(dispatches[k]) : dispatches[k][n].id \in ids
                  /\ \A n \in 1..Len(sent) : sent[n].tool_use_id \in ids

\* Round 1 processed a response with a text block followed by a tool_use
\* block: the assistant message sent with the round's call has both blocks,
\* the text first, and there was one tool call and one tool result.
C30_Witness ==
    /\ RoundCallMade(1)
    /\ Len(calls[1].result.content) = 2
    /\ calls[1].result.content[1].type = "text"
    /\ calls[1].result.content[2].type = "tool_use"
    /\ calls[2].params.messages[2].content[1].type = "text"
    /\ Len(calls[2].params.messages[2].content) = 2
    /\ Len(dispatches[1]) = 1
    /\ Len(ResultsSent(1)) = 1

\* ------------------------------------------------------------------------
\* C23
\* ------------------------------------------------------------------------

\* C23: as long as every call on the client and on the tool manager answers
\* or raises, every generate_response comes to its end, by a return or by
\* an exception, whatever the model and the tools do.
C23_EventuallyTerminates == <>Terminated

\* An invocation is over although the model asked for tools on all three
\* calls and every execute_tool call raised.
C23_Witness ==
    /\ Terminated
    /\ ToolsOnEveryCall
    /\ Len(dispatches[1]) > 0
    /\ Len(dispatches[2]) > 0
    /\ \A k \in 1..max_rounds : \A n \in 1..Len(dispatches[k]) :
          ~dispatches[k][n].ok

\* ------------------------------------------------------------------------
\* C25
\* ------------------------------------------------------------------------

\* The session duties of one handled request, given whether it counts as
\* having come with a session id: with one, no create_session call, and the
\* id goes to query and into the response; without one, one create_session
\* call whose return value goes to query and into the response.
SessionHandled(s, supplied) ==
    IF supplied
    THEN /\ s.created = <<>>
         /\ s.queried = << << s.request.query, s.request.session_id[1] >> >>
         /\ s.status = 200 => s.body.session_id = s.request.session_id[1]
    ELSE /\ Len(s.created) = 1
         /\ s.queried = << << s.request.query, s.created[1] >> >>
         /\ s.status = 200 => s.body.session_id = s.created[1]

\* C25 as stated: a request counts as having come with a session id
\* whenever its session_id field is present.
C25_SessionEchoedWheneverPresent ==
    \A i \in 1..Len(served) :
        SessionHandled(served[i], served[i].request.session_id # None)

\* C25, amended: for every request to /api/query, when the request has a
\* non-empty session_id no session is created and that id is passed to
\* query and returned in the response; when the session_id is left out or
\* is the empty string, create_session is called once and the id it
\* returns is passed to query and returned in the response.
C25_SessionEchoedWhenNonEmpty ==
    \A i \in 1..Len(served) :
        SessionHandled(served[i], Truthy(served[i].request.session_id))

\* Two requests were answered: one came with an id and got it back without
\* a create_session call, one came with the empty string and got the id of
\* a new session.
C25_Witness ==
    /\ Len(served) = 2
    /\ served[1].status = 200
    /\ served[2].status = 200
    /\ served[1].request.session_id = Some(<<"test-session-456">>)
    /\ served[1].body.session_id = <<"test-session-456">>
    /\ served[1].created = <<>>
    /\ served[2].request.session_id = Some(<<>>)
    /\ served[2].created = << <<"session_2">> >>
    /\ served[2].body.session_id = <<"session_2">>

\* ------------------------------------------------------------------------
\* C21
\* ------------------------------------------------------------------------

\* The tool results of round k of invocation t, built from its own
\* execute_tool calls.
OwnResults(t, k) ==
    [n \in 1..Len(t.dispatches[k]) |->
        LET d == t.dispatches[k][n]
        IN  [type |-> "tool_result", tool_use_id |-> d.id,
             content |-> IF d.ok THEN d.result ELSE ToolErrorPrefix \o d.result]]

\* The messages of call i of invocation t, built from its own query, its
\* own responses and its own tool results.
RECURSIVE OwnMessages(_, _)
OwnMessages(t, i) ==
    IF i = 1
    THEN << [role |-> "user", content |-> t.query] >>
    ELSE LET turns == Append(OwnMessages(t, i - 1),
                             [role |-> "assistant",
                              content |-> t.calls[i - 1].result.content])
         IN  IF Len(t.dispatches[i - 1]) > 0
             THEN Append(turns, [role |-> "user",
                                 content |-> OwnResults(t, i - 1)])
             ELSE turns

\* The tools parameter of call i of invocation t, <<>> when it has none:
\* the first call has the tools of t, the calls of the rounds before the
\* last have them as well (an empty list when t has none).
OwnTools(t, i) ==
    IF i = 1
    THEN IF Truthy(t.tools) THEN Some(t.tools[1]) ELSE None
    ELSE IF i - 1 < max_rounds
         THEN Some(IF Truthy(t.tools) THEN t.tools[1] ELSE <<>>)
         ELSE None

\* What invocation t returns, from its own last call.
OwnReturn(t) ==
    LET last == t.calls[Len(t.calls)]
    IN  IF last.ok THEN last.result.content[1].text
        ELSE <<"Error during tool execution round ">>
                \o IntStr(Len(t.calls) - 1) \o <<": ">> \o last.result

\* Everything invocation t has sent, its round counter and what it
\* returned are what its own arguments and the answers it got itself make
\* them.
AsIfAlone(t) ==
    /\ \A i \in 1..Len(t.calls) :
          LET p == t.calls[i].params
          IN  /\ p.messages = OwnMessages(t, i)
              /\ p.system = SystemContent(t.conversation_history)
              /\ p.model = Model /\ p.temperature = 0 /\ p.max_tokens = 800
              /\ IF OwnTools(t, i) = None
                 THEN DOMAIN p = {"model", "temperature", "max_tokens",
                                  "messages", "system"}
                 ELSE /\ DOMAIN p = {"model", "temperature", "max_tokens",
                                     "messages", "system", "tools", "tool_choice"}
                      /\ p.tools = OwnTools(t, i)[1]
    /\ t.round_number <= max_rounds
    /\ t.pc = "tools" => t.round_number = Len(t.calls)
    /\ t.pc = "loop" => t.round_number = Len(t.calls) - 1
    /\ t.pc = "returned" => t.retval = OwnReturn(t)

\* C21: with two generate_response invocations on one generator, however
\* their steps are interleaved, the messages, the tools and the other
\* parameters of every model call of each invocation, its round counter
\* and its return value are those its own arguments and its own answers
\* determine, as when it runs alone; nothing of the other invocation is in
\* them.
C21_InvocationsAreIsolated ==
    /\ AsIfAlone(Running)
    /\ parked # None => AsIfAlone(parked[1])

\* The first invocation made one call, was suspended while the second one
\* made two calls and ran a tool, and then went on to its third call; both
\* are over.
C21_Witness ==
    /\ parked # None
    /\ switches = <<1, 2>>
    /\ Terminated
    /\ Len(calls) = 3
    /\ Truthy(tools)
    /\ parked[1].pc = "returned"
    /\ Len(parked[1].calls) = 2
    /\ Len(parked[1].dispatches[1]) = 1
    /\ parked[1].query # query

\* ------------------------------------------------------------------------
\* C31
\* ------------------------------------------------------------------------

\* The round counter of invocation t where t stands: not bound before the
\* for statement of _handle_tool_execution has run, and one of
\* 1..max_rounds from then on, whichever way the loop is left; back at the
\* for statement it is below max_rounds, or the range would be exhausted.
CounterInRange(t) ==
    /\ t.round_number \in 0..max_rounds
    /\ t.pc \in {"start", "decide"} => t.round_number = 0
    /\ t.pc = "tools" => t.round_number \in 1..max_rounds
    /\ t.pc = "loop" =>
          IF Len(t.calls) = 1
          THEN t.round_number = 0
          ELSE t.round_number \in 1..(max_rounds - 1)
    /\ t.pc \in {"returned", "raised"} =>
          IF Len(t.calls) = 1
          THEN t.round_number = 0
          ELSE t.round_number \in 1..max_rounds

\* One step and the round counters: a thread switch leaves each
\* invocation its own counter; a step of the running invocation leaves the
\* counter of the waiting one alone and either keeps its own or adds 1 to
\* it, and the first value bound, by the for statement, is 1.
CounterStep ==
    IF switches' # switches
    THEN /\ parked'[1].round_number = round_number
         /\ round_number' = parked[1].round_number
    ELSE /\ parked' = parked
         /\ round_number' \in {round_number, round_number + 1}
         /\ (round_number = 0 /\ round_number' # 0) =>
               /\ round_number' = 1
               /\ pc = "loop"
               /\ pc' = "tools"

\* C31: the round counter is bound to 1 when the loop is entered, changes
\* only by growing by exactly 1, and is in 1..max_rounds (1..2) in every
\* state of the loop; an invocation on a generator that has run or is
\* running another one starts its own counter at 1 all the same.
C31_RoundCounterOneToMaxRounds ==
    /\ [](CounterInRange(Running) /\ (parked # None => CounterInRange(parked[1])))
    /\ [][CounterStep]_vars

\* The first invocation ran its two rounds and returned with its counter
\* at 2; the second one, started after it on the same generator, is in its
\* first round with its counter at 1.
C31_Witness ==
    /\ parked # None
    /\ switches = <<3>>
    /\ parked[1].pc = "returned"
    /\ parked[1].round_number = max_rounds
    /\ Len(parked[1].dispatches[2]) > 0
    /\ pc = "tools"
    /\ round_number = 1
    /\ Len(calls) = 1

\* ------------------------------------------------------------------------
\* C32
\* ------------------------------------------------------------------------

\* Call x of one run and call y of the other are the same operation with
\* the same arguments: the same parameters, messages included, for
\* messages.create; the same tool name and input for execute_tool.
SameRequest(x, y) ==
    /\ x.kind = y.kind
    /\ IF x.kind = "messages.create"
       THEN /\ DOMAIN x.request = DOMAIN y.request
            /\ x.request = y.request
       ELSE x.request = y.request

====
